---- MODULE Spec2Model ----
(***************************************************************************)
(* A model of src/src/lib.rs of pms7003: the nom frame decoder (parse,     *)
(* parse_data), the serial read loop (read_active) and the air quality     *)
(* index computation (calculate_aqi).                                      *)
(*                                                                         *)
(* Bytes are the integers 0..255.  A concentration is a decimal with two   *)
(* digits after the point, held as an integer number of hundredths; a      *)
(* breakpoint is held as an integer number of tenths; an AQI value is an   *)
(* exact fraction [num, den].                                              *)
(***************************************************************************)
EXTENDS Integers, Sequences, FiniteSets, TLC

VARIABLES
    stream,     \* every byte the sensor puts on the serial line, in order
    pos,        \* how many bytes of stream port.read has handed out so far
    input,      \* read_active: the slice `input` of buf still to be decoded
    delivered,  \* the PmsData values passed to callback, in call order
    pc,         \* read_active: "read" (l.285), "parse" (l.290), "returned" (l.315)
    arm,        \* the match arm read_active took last (what it logged last)
    aqi_call,   \* calculate_aqi: the arguments of the call, or NotCalled
    aqi_ret,    \* calculate_aqi: how the call ended, NotCalled before it has
    settle_time,\* default_callback: settle_time, in whole seconds
    echo,       \* default_callback: echo
    start_time, \* default_callback: start_time of the closure, None or Some(t)
    clock,      \* what SystemTime::now() reads, in whole seconds
    gauges,     \* the gauges of the metrics registry, NotCalled before any set
    stdout,     \* what default_callback has printed, in order
    cb_data     \* the PmsData of the calls of the closure, in order

cbVars == <<settle_time, echo, start_time, clock, gauges, stdout, cb_data>>

vars == <<stream, pos, input, delivered, pc, arm, aqi_call, aqi_ret,
          settle_time, echo, start_time, clock, gauges, stdout, cb_data>>

-----------------------------------------------------------------------------
(* Bounds of the model *)

\* most frames the sensor sends in one run
MaxFrames == 2
\* most noise bytes in front of a frame
MaxGarbage == 3
\* the largest concentration calculate_aqi is called with, in hundredths
MaxData == 61000
\* the most negative concentration it is called with is -MaxBelowZero hundredths
MaxBelowZero == 200
\* the longest settle_time, in seconds
MaxSettle == 2
\* the latest reading of the system clock, in seconds
MaxClock == 3
\* most calls of the closure of default_callback
MaxCalls == 3

-----------------------------------------------------------------------------
(* Constants of the program *)

\* START_MARKER = "\x42\x4d"
START_MARKER == <<66, 77>>

\* let mut buf = vec![0u8; 64]
BufLen == 64

\* what tag + 15 be_u16 consume
FrameLen == 32

\* the width of be_u16
U16Len == 2

\* the number of be_u16 parsers in the tuple of parse_data
NumFields == 15

\* the GOLDEN_PACKET of the tests
GOLDEN_PACKET ==
    << 66, 77, 0, 28, 0, 3, 0, 4, 0, 7, 0, 3, 0, 4, 0,
       7, 2, 208, 0, 184, 0, 25, 0, 8, 0, 4, 0, 2, 151, 0,
       3, 15 >>

\* A second well-formed frame: the bytes 0x42 0x4D occur inside its payload,
\* at an even and at an odd offset, and neither its frame_length (0x0101)
\* nor its checksum (0) fits its content.
MARKER_PACKET ==
    << 66, 77, 1, 1, 66, 77, 0, 66, 77, 0, 0, 5, 0, 6, 0,
       9, 255, 255, 0, 1, 0, 2, 0, 3, 0, 4, 0, 5, 66, 77,
       0, 0 >>

Packets == {GOLDEN_PACKET, MARKER_PACKET}

\* noise bytes: 'a', and the two bytes of the marker
GarbageBytes == {97, 66, 77}

-----------------------------------------------------------------------------
(* Helpers *)

Min(a, b) == IF a <= b THEN a ELSE b

Drop(s, n) == SubSeq(s, n + 1, Len(s))

Take(s, n) == SubSeq(s, 1, n)

\* F applied to the value of v, which is worked out once
Bind(v, F(_)) == CHOOSE out \in {F(x) : x \in {v}} : TRUE

RECURSIVE Concat(_)
Concat(ss) == IF ss = <<>> THEN <<>> ELSE Head(ss) \o Concat(Tail(ss))

SeqsUpTo(S, n) == UNION {[1..k -> S] : k \in 0..n}

-----------------------------------------------------------------------------
(* nom, as lib.rs uses it (streaming parsers over &[u8]) *)

\* calculate_aqi has not been called, or has not ended yet
NotCalled == [kind |-> "none"]

Done(rest, val) == [kind |-> "Ok", rest |-> rest, val |-> val]
Incomplete(n) == [kind |-> "Incomplete", needed |-> n]
Error == [kind |-> "Error"]

\* tag as nom::bytes::complete::tag would do it: a short input is an Error
tag_complete(t, i) ==
    IF Len(i) >= Len(t) /\ Take(i, Len(t)) = t
    THEN Done(Drop(i, Len(t)), Take(i, Len(t)))
    ELSE Error

\* nom::bytes::streaming::tag: the input is compared with the tag over their
\* common length; a mismatch is an Error, a too-short match is Incomplete.
tag(t, i) ==
    LET n == Min(Len(i), Len(t)) IN
    IF \E k \in 1..n : i[k] # t[k] THEN Error
    ELSE IF Len(i) >= Len(t) THEN Done(Drop(i, Len(t)), Take(i, Len(t)))
    ELSE Incomplete(Len(t) - Len(i))

\* be_u16 reading the low byte first
le_u16(i) ==
    IF Len(i) < U16Len THEN Incomplete(U16Len - Len(i))
    ELSE Done(Drop(i, U16Len), i[2] * 256 + i[1])

\* be_u16 asking for its whole width whatever it already has
be_u16_whole(i) ==
    IF Len(i) < U16Len THEN Incomplete(U16Len)
    ELSE Done(Drop(i, U16Len), i[1] * 256 + i[2])

\* nom::number::streaming::be_u16
be_u16(i) ==
    IF Len(i) < U16Len THEN Incomplete(U16Len - Len(i))
    ELSE Done(Drop(i, U16Len), i[1] * 256 + i[2])

\* take(2usize)
take2(i) ==
    IF Len(i) < 2 THEN Incomplete(2 - Len(i))
    ELSE Done(Drop(i, 2), Take(i, 2))

\* nom::bytes::streaming::take(1usize)
take1(i) ==
    IF Len(i) < 1 THEN Incomplete(1 - Len(i))
    ELSE Done(Drop(i, 1), Take(i, 1))

\* nom::sequence::tuple over n be_u16 parsers: each runs on what the one
\* before it left; the first that does not succeed ends the tuple.
RECURSIVE be_u16_tuple(_, _, _)
be_u16_tuple(i, n, acc) ==
    IF n = 0 THEN Done(i, acc)
    ELSE Bind(be_u16(i), LAMBDA r :
             IF r.kind # "Ok" THEN r
             ELSE be_u16_tuple(r.rest, n - 1, Append(acc, r.val)))

\* the closure of parse_data: the tuple's values to a PmsData
PmsData(v) ==
    [ frame_length |-> v[1],
      pm1_cf1      |-> v[2],
      pm2_5_cf1    |-> v[3],
      pm10_cf1     |-> v[4],
      pm1_atmo     |-> v[5],
      pm2_5_atmo   |-> v[6],
      pm10_atmo    |-> v[7],
      pm0_3_count  |-> v[8],
      pm0_5_count  |-> v[9],
      pm1_0_count  |-> v[10],
      pm2_5_count  |-> v[11],
      pm5_0_count  |-> v[12],
      pm10_0_count |-> v[13],
      reserved     |-> v[14],
      checksum     |-> v[15] ]

parse_data(i) ==
    Bind(tag(START_MARKER, i), LAMBDA m :
        IF m.kind # "Ok" THEN m
        ELSE Bind(be_u16_tuple(m.rest, NumFields, <<>>), LAMBDA r :
                 IF r.kind # "Ok" THEN r
                 ELSE Done(r.rest, PmsData(r.val))))

Some(x) == <<x>>
None == <<>>

\* parse without the alt: map(parse_data, Some) alone
parse_noalt(i) ==
    Bind(parse_data(i), LAMBDA a :
        IF a.kind = "Ok" THEN Done(a.rest, Some(a.val)) ELSE a)

\* alt((map(parse_data, Some), map(take(1usize), |_| None))): the second
\* parser runs only when the first returns Err::Error.
parse(i) ==
    Bind(parse_data(i), LAMBDA a :
        IF a.kind = "Ok" THEN Done(a.rest, Some(a.val))
        ELSE IF a.kind = "Incomplete" THEN a
        ELSE LET b == take1(i) IN
             IF b.kind = "Ok" THEN Done(b.rest, None) ELSE b)

\* no closure of default_callback exists
CallbackIdle ==
    /\ settle_time = 0
    /\ echo = FALSE
    /\ start_time = None
    /\ clock = 0
    /\ gauges = NotCalled
    /\ stdout = <<>>
    /\ cb_data = <<>>

-----------------------------------------------------------------------------
(* What the sensor sends: frames back to back, or noise and then a frame *)

GarbageRuns == SeqsUpTo(GarbageBytes, MaxGarbage)

FrameStreams == {Concat(fs) : fs \in SeqsUpTo(Packets, MaxFrames)}

NoisyStreams == {g \o f : g \in GarbageRuns, f \in Packets \cup {<<>>}}

Streams == FrameStreams \cup NoisyStreams

-----------------------------------------------------------------------------
(* read_active *)

Init ==
    /\ stream \in Streams
    /\ pos = 0
    /\ input = <<>>
    /\ delivered = <<>>
    /\ pc = "read"
    /\ arm = "start"
    /\ aqi_call = NotCalled
    /\ aqi_ret = NotCalled
    /\ CallbackIdle

\* port.read(&mut buf[..]) returns Ok(p): p bytes of the line, at most the
\* length of buf; input = &buf[..p]
ReadOk ==
    /\ pc = "read"
    /\ \E p \in 0..Min(BufLen, Len(stream) - pos) :
        /\ input' = SubSeq(stream, pos + 1, pos + p)
        /\ pos' = pos + p
    /\ pc' = "parse"
    /\ arm' = "read"
    /\ UNCHANGED <<stream, delivered, aqi_call, aqi_ret>>
    /\ UNCHANGED cbVars

\* a timeout handled like the other errors: read_active returns
ReadTimedOut_fatal ==
    /\ pc = "read"
    /\ pc' = "returned"
    /\ arm' = "timeout"
    /\ UNCHANGED <<stream, pos, input, delivered, aqi_call, aqi_ret>>
    /\ UNCHANGED cbVars

\* port.read returns Err of kind TimedOut: sleep, read again
ReadTimedOut ==
    /\ pc = "read"
    /\ arm' = "timeout"
    /\ UNCHANGED <<stream, pos, input, delivered, pc, aqi_call, aqi_ret>>
    /\ UNCHANGED cbVars

\* port.read returns any other Err: read_active returns it
ReadErr ==
    /\ pc = "read"
    /\ pc' = "returned"
    /\ arm' = "ioerror"
    /\ UNCHANGED <<stream, pos, input, delivered, aqi_call, aqi_ret>>
    /\ UNCHANGED cbVars

\* a skip that does not move on: input keeps its first byte
ParseNone_stuck ==
    /\ pc = "parse"
    /\ \E r \in {parse(input)} :
        /\ r.kind = "Ok"
        /\ r.val = None
    /\ arm' = "skip"
    /\ UNCHANGED <<stream, pos, input, delivered, pc, aqi_call, aqi_ret>>
    /\ UNCHANGED cbVars

\* Ok((remainder, None)): input = remainder
ParseNone ==
    /\ pc = "parse"
    /\ \E r \in {parse(input)} :
        /\ r.kind = "Ok"
        /\ r.val = None
        /\ input' = r.rest
    /\ arm' = "skip"
    /\ UNCHANGED <<stream, pos, delivered, pc, aqi_call, aqi_ret>>
    /\ UNCHANGED cbVars

\* Ok((remainder, Some(data))): callback(data); input = remainder
ParseSome ==
    /\ pc = "parse"
    /\ \E r \in {parse(input)} :
        /\ r.kind = "Ok"
        /\ r.val # None
        /\ delivered' = Append(delivered, r.val[1])
        /\ input' = r.rest
    /\ arm' = "frame"
    /\ UNCHANGED <<stream, pos, pc, aqi_call, aqi_ret>>
    /\ UNCHANGED cbVars

\* Err(Incomplete(Size(s))) or any other Err: break.  The slice `input`
\* ends with the match arm of the read; the next read binds a new one.
ParseBreak ==
    /\ pc = "parse"
    /\ \E r \in {parse(input)} :
        /\ r.kind # "Ok"
        /\ arm' = IF r.kind = "Incomplete" THEN "incomplete" ELSE "error"
    /\ input' = <<>>
    /\ pc' = "read"
    /\ UNCHANGED <<stream, pos, delivered, aqi_call, aqi_ret>>
    /\ UNCHANGED cbVars

Next ==
    \/ ReadOk
    \/ ReadTimedOut
    \/ ReadErr
    \/ ParseNone
    \/ ParseSome
    \/ ParseBreak

Spec == Init /\ [][Next]_vars

\* one iteration of the inner loop of read_active
Decode == ParseNone \/ ParseSome \/ ParseBreak

\* read_active keeps running: an iteration of the inner loop that can be
\* taken is taken.  (port.read may block for ever; nothing is asked of it.)
SpecLive == Spec /\ WF_vars(Decode)

-----------------------------------------------------------------------------
(* calculate_aqi *)

\* AQI_RANGES
AQI_RANGES ==
    << <<0, 50>>, <<51, 100>>, <<101, 150>>, <<151, 200>>,
       <<201, 300>>, <<301, 400>>, <<401, 500>> >>

\* AQI_PM2_5_BREAKPOINTS, in tenths
AQI_PM2_5_BREAKPOINTS ==
    << <<0, 120>>, <<121, 354>>, <<355, 554>>, <<555, 1504>>,
       <<1505, 2504>>, <<2505, 3504>>, <<3505, 5004>> >>

\* AQI_PM10_0_BREAKPOINTS, in tenths
AQI_PM10_0_BREAKPOINTS ==
    << <<0, 540>>, <<550, 1540>>, <<1550, 2540>>, <<2550, 3540>>,
       <<3550, 4240>>, <<4250, 5040>>, <<5050, 6040>> >>

Tables == {AQI_PM2_5_BREAKPOINTS, AQI_PM10_0_BREAKPOINTS}

\* the 1000000.0 of test_aqi_data_boundary_high, in hundredths
TEST_DATA_HIGH == 100000000

\* An AQI value, exactly: num / den with den > 0
Frac(num, den) == [kind |-> "value", num |-> num, den |-> den]

\* The call does not return: `partition_point(..) - 1` is 0 - 1 in usize.
\* A build with overflow checks panics at the subtraction; one without them
\* gets usize::MAX and panics at breakpoints[index].
Panic == [kind |-> "panic"]

\* (data * 10.0).trunc() in place of round()
trunc_tenths(data) ==
    IF data >= 0 THEN data \div 10 ELSE -((-data) \div 10)

\* (data * 10.0).round(), data in hundredths, the result in tenths:
\* f64::round rounds half away from zero
round_tenths(data) ==
    IF data >= 0 THEN (data + 5) \div 10 ELSE -((5 - data) \div 10)

\* breakpoints.partition_point(|(low, _high)| v > *low): the index of the
\* first element the predicate rejects (the lows ascend)
RECURSIVE partition_point(_, _, _)
partition_point(breakpoints, v, k) ==
    IF k < Len(breakpoints) /\ v > breakpoints[k + 1][1]
    THEN partition_point(breakpoints, v, k + 1)
    ELSE k

\* aqi.min(AQI_RANGES[AQI_RANGES.len() - 1].1)
min_last(aqi) ==
    LET top == AQI_RANGES[Len(AQI_RANGES)][2] IN
    IF aqi.num > top * aqi.den THEN Frac(top, 1) ELSE aqi

\* the interpolation of line 112 in bucket index (counted from 1 here)
interpolate(breakpoints, index, v) ==
    LET breakpoint == breakpoints[index]
        den == breakpoint[2] - breakpoint[1]
    IN  Frac((AQI_RANGES[index][2] - AQI_RANGES[index][1]) * (v - breakpoint[1])
               + AQI_RANGES[index][1] * den, den)

\* calculate_aqi with `data < 0.0` for its first test
calculate_aqi_lt(breakpoints, data) ==
    IF data < 0 THEN Frac(0, 1)
    ELSE LET v == round_tenths(data)
             pp == partition_point(breakpoints, v, 0)
         IN  IF pp = 0 THEN Panic
             ELSE min_last(interpolate(breakpoints, pp, v))

\* calculate_aqi without the final min
calculate_aqi_nomin(breakpoints, data) ==
    IF data <= 0 THEN Frac(0, 1)
    ELSE LET v == round_tenths(data)
             pp == partition_point(breakpoints, v, 0)
         IN  IF pp = 0 THEN Panic
             ELSE interpolate(breakpoints, pp, v)

calculate_aqi(breakpoints, data) ==
    IF data <= 0 THEN Frac(0, 1)
    ELSE LET v == round_tenths(data)
             pp == partition_point(breakpoints, v, 0)
         IN  IF pp = 0 THEN Panic
             ELSE min_last(interpolate(breakpoints, pp, v))

\* the concentrations calculate_aqi is called with, in hundredths
Concentrations == (-MaxBelowZero .. MaxData) \cup {TEST_DATA_HIGH}

\* a caller is about to call calculate_aqi(breakpoints, data)
InitAqi ==
    /\ stream = <<>>
    /\ pos = 0
    /\ input = <<>>
    /\ delivered = <<>>
    /\ pc = "read"
    /\ arm = "start"
    /\ aqi_call \in [breakpoints : Tables, data : Concentrations]
    /\ aqi_ret = NotCalled
    /\ CallbackIdle

\* the call runs to its end
CalculateAqi ==
    /\ aqi_ret = NotCalled
    /\ aqi_ret' = calculate_aqi(aqi_call.breakpoints, aqi_call.data)
    /\ UNCHANGED <<stream, pos, input, delivered, pc, arm, aqi_call>>
    /\ UNCHANGED cbVars

NextAqi == CalculateAqi

SpecAqi == InitAqi /\ [][NextAqi]_vars

-----------------------------------------------------------------------------
(* default_callback and update_metrics *)

\* `as f64` of a u16 field, in hundredths
as_f64(n) == 100 * n

\* update_metrics(data): every gauge after the call, by metric and label
update_metrics(data) ==
    [ particle_concentration_standard |->
          [ s1_0 |-> data.pm1_cf1, s2_5 |-> data.pm2_5_cf1,
            s10_0 |-> data.pm10_cf1 ],
      particle_concentration_environment |->
          [ s1_0 |-> data.pm1_atmo, s2_5 |-> data.pm2_5_atmo,
            s10_0 |-> data.pm10_atmo ],
      particle_count |->
          [ s0_3 |-> data.pm0_3_count, s0_5 |-> data.pm0_5_count,
            s1_0 |-> data.pm1_0_count, s2_5 |-> data.pm2_5_count,
            s5_0 |-> data.pm5_0_count, s10_0 |-> data.pm10_0_count ],
      air_quality_index |->
          [ s2_5  |-> calculate_aqi(AQI_PM2_5_BREAKPOINTS,
                                    as_f64(data.pm2_5_cf1)),
            s10_0 |-> calculate_aqi(AQI_PM10_0_BREAKPOINTS,
                                    as_f64(data.pm10_cf1)) ] ]

\* the frames the closure is called with
Frames == {parse(p).val[1] : p \in Packets}

\* SystemTime::elapsed(): Ok(now - self), or Err when now is before self
elapsed(self, now) ==
    IF now >= self THEN [kind |-> "Ok", val |-> now - self]
    ELSE [kind |-> "Err"]

\* println!("Waiting {:?} until data is trusted...", settle_time)
Waiting == [line |-> "waiting"]

\* the println! block of a frame: concentrations and counts
Echo(data) == [line |-> "frame", data |-> data]

\* default_callback(settle_time, echo): the closure, with start_time = None
InitCallback ==
    /\ stream = <<>>
    /\ pos = 0
    /\ input = <<>>
    /\ delivered = <<>>
    /\ pc = "read"
    /\ arm = "start"
    /\ aqi_call = NotCalled
    /\ aqi_ret = NotCalled
    /\ settle_time \in 0..MaxSettle
    /\ echo \in BOOLEAN
    /\ start_time = None
    /\ clock \in 0..MaxClock
    /\ gauges = NotCalled
    /\ stdout = <<>>
    /\ cb_data = <<>>

\* the system clock between two readings: SystemTime is the wall clock, it
\* moves forward with time and moves either way when it is set
ClockMoves ==
    /\ \E t \in 0..MaxClock : t # clock /\ clock' = t
    /\ UNCHANGED <<stream, pos, input, delivered, pc, arm, aqi_call, aqi_ret>>
    /\ UNCHANGED <<settle_time, echo, start_time, gauges, stdout, cb_data>>

\* the closure called with one frame: start_time is set on the first call;
\* the frame is dropped when elapsed() is Ok(d) with d < settle_time;
\* otherwise update_metrics runs and, with echo, the frame is printed
Callback ==
    /\ Len(cb_data) < MaxCalls
    /\ \E data \in Frames :
        LET first   == start_time = None
            started == IF first THEN Some(clock) ELSE start_time
            waiting == IF first /\ echo /\ settle_time > 0
                       THEN <<Waiting>> ELSE <<>>
            e       == elapsed(started[1], clock)
        IN  /\ cb_data' = Append(cb_data, data)
            /\ start_time' = started
            /\ IF e.kind = "Ok" /\ e.val < settle_time
               THEN /\ gauges' = gauges
                    /\ stdout' = stdout \o waiting
               ELSE /\ gauges' = update_metrics(data)
                    /\ stdout' = stdout \o waiting
                                  \o (IF echo THEN <<Echo(data)>> ELSE <<>>)
    /\ UNCHANGED <<stream, pos, input, delivered, pc, arm, aqi_call, aqi_ret>>
    /\ UNCHANGED <<settle_time, echo, clock>>

NextCallback == ClockMoves \/ Callback

SpecCallback == InitCallback /\ [][NextCallback]_vars

-----------------------------------------------------------------------------
(* The properties *)

\* every byte of the stream has been read and the decode loop has ended
Quiescent == pc = "read" /\ pos = Len(stream)

\* the frame laid out in the first 32 bytes of b: the big-endian 16-bit
\* number at each of the byte offsets 2, 4, .. 30, in the order of the fields
FrameAt(b) ==
    [ frame_length |-> 256 * b[3] + b[4],
      pm1_cf1      |-> 256 * b[5] + b[6],
      pm2_5_cf1    |-> 256 * b[7] + b[8],
      pm10_cf1     |-> 256 * b[9] + b[10],
      pm1_atmo     |-> 256 * b[11] + b[12],
      pm2_5_atmo   |-> 256 * b[13] + b[14],
      pm10_atmo    |-> 256 * b[15] + b[16],
      pm0_3_count  |-> 256 * b[17] + b[18],
      pm0_5_count  |-> 256 * b[19] + b[20],
      pm1_0_count  |-> 256 * b[21] + b[22],
      pm2_5_count  |-> 256 * b[23] + b[24],
      pm5_0_count  |-> 256 * b[25] + b[26],
      pm10_0_count |-> 256 * b[27] + b[28],
      reserved     |-> 256 * b[29] + b[30],
      checksum     |-> 256 * b[31] + b[32] ]

\* the frames a decoder hands out when it is given b as one buffer
RECURSIVE DecodeWhole(_)
DecodeWhole(b) ==
    LET r == parse(b) IN
    IF r.kind # "Ok" THEN <<>>
    ELSE IF r.val = None THEN DecodeWhole(r.rest)
    ELSE <<r.val[1]>> \o DecodeWhole(r.rest)

\* the frames of a stream of back-to-back frames, by position
FramesOf(b) ==
    [n \in 1..(Len(b) \div FrameLen) |->
        FrameAt(SubSeq(b, (n - 1) * FrameLen + 1, n * FrameLen))]

\* C1: fragmentation-invariance.  Once the whole stream has been read, in
\* whatever chunks, the frames passed to the callback are the frames that
\* decoding the stream as one buffer gives, in the same order.
C1_FragmentationInvariance ==
    Quiescent => delivered = DecodeWhole(stream)

\* C2: a stream of back-to-back well-formed frames F1..Fn, read in chunks of
\* any sizes, has the callback called exactly n times, with F1..Fn in order.
C2_EveryFrameOnce ==
    (Quiescent /\ stream \in FrameStreams) => delivered = FramesOf(stream)

\* C3: byte accounting.  In every step of read_active the bytes that come in
\* (read from the port, or pending in input) are the bytes that go out: 32
\* for a frame passed to the callback, 1 for a skip, the rest still pending
\* in input; and the bytes pending when the decoder needs more are the
\* beginning of what is decoded after the next read.
C3_ByteAccounting ==
    [][ /\ (pos' - pos) + Len(input)
            = Len(input')
              + FrameLen * (Len(delivered') - Len(delivered))
              + (IF pc = "parse" /\ arm' = "skip" THEN 1 ELSE 0)
        /\ (pc = "read" /\ pc' = "parse")
              => Take(input', Len(input)) = input
      ]_vars

\* C4: a buffer of 32 bytes or more that starts with 0x42 0x4D parses to the
\* frame whose 15 fields are the big-endian numbers at the offsets 2..31, in
\* the order of the fields, whatever frame_length and checksum hold; the
\* remainder is the buffer from offset 32 on.  So the frame read_active has
\* just passed to the callback is the one laid out in the 32 bytes of the
\* stream that end where the remaining input begins.
C4_FrameFields ==
    /\ (Len(input) >= FrameLen /\ Take(input, 2) = START_MARKER)
          => parse(input) = Done(Drop(input, FrameLen), Some(FrameAt(input)))
    /\ (pc = "parse" /\ arm = "frame")
          => /\ delivered # <<>>
             /\ pos - Len(input) >= FrameLen
             /\ delivered[Len(delivered)]
                  = FrameAt(SubSeq(stream, pos - Len(input) - FrameLen + 1,
                                   pos - Len(input)))

\* a frame whose frame_length and checksum do not fit it has been passed to
\* the callback, out of a buffer that held more than that frame
C4_Witness ==
    /\ pc = "parse"
    /\ arm = "frame"
    /\ Len(input) > 0
    /\ delivered # <<>>
    /\ delivered[Len(delivered)].frame_length = 257
    /\ delivered[Len(delivered)].checksum = 0
    /\ delivered[Len(delivered)].pm1_cf1 = 16973

\* the first Min(Len(b), 2) bytes of b are the beginning of the marker
MarkerSoFar(b) ==
    LET n == Min(Len(b), Len(START_MARKER)) IN Take(b, n) = Take(START_MARKER, n)

IsSkip(r) == r.kind = "Ok" /\ r.val = None

\* C5: parse skips one byte exactly when the buffer is not empty and its
\* first Min(len, 2) bytes are not the beginning of the marker, and what is
\* left is the buffer without its first byte; it asks for more bytes, and
\* does not skip, for the empty buffer, for the single byte 0x42 and for a
\* buffer shorter than 32 bytes that starts with the marker; a buffer whose
\* first byte is not 0x42 is skipped even when it is 1 byte long.
C5_Classification ==
    LET r == parse(input) IN
    /\ IsSkip(r) <=> (Len(input) >= 1 /\ ~MarkerSoFar(input))
    /\ IsSkip(r) => r.rest = Tail(input)
    /\ (MarkerSoFar(input) /\ Len(input) < FrameLen) => r.kind = "Incomplete"
    /\ (Len(input) >= 1 /\ input[1] # START_MARKER[1]) => IsSkip(r)
    /\ (pc = "parse" /\ arm = "skip") => pos - Len(input) >= 1

\* the decode loop has skipped a buffer that was a single byte, and that byte
\* is the second byte of the marker
C5_Witness ==
    /\ pc = "parse"
    /\ arm = "skip"
    /\ input = <<>>
    /\ stream[pos] = START_MARKER[2]

\* C6, as stated: when parse asks for more bytes for a buffer of L < 32
\* bytes, it asks for the 32 - L bytes that complete the frame.
C6_NeededCompletesFrame ==
    LET r == parse(input) IN
    (pc = "parse" /\ r.kind = "Incomplete")
        => (Len(input) < FrameLen /\ r.needed = FrameLen - Len(input))

\* C6, amended: when parse asks for more bytes for a buffer of L bytes, L is
\* less than 32, the buffer is the beginning of the marker or starts with it,
\* and the number asked for is what the two-byte element the buffer ends in
\* (the marker, or a field) still lacks: 2 for an even L, 1 for an odd L; it
\* is at least 1 and at most 32 - L.
C6_NeededCompletesField ==
    LET r == parse(input) IN
    (pc = "parse" /\ r.kind = "Incomplete")
        => /\ Len(input) < FrameLen
           /\ MarkerSoFar(input)
           /\ r.needed = U16Len - (Len(input) % U16Len)
           /\ r.needed >= 1
           /\ r.needed <= FrameLen - Len(input)

\* parse is about to be asked about the marker alone, and asks for 2 bytes
C6_Witness ==
    /\ pc = "parse"
    /\ input = START_MARKER
    /\ parse(input) = Incomplete(2)

\* b is k = Len(b) - 32 bytes that hold no adjacent 0x42 0x4D, also not
\* across their end, and then 32 bytes that start with the marker
GarbageThenFrame(b) ==
    /\ Len(b) >= FrameLen
    /\ LET k == Len(b) - FrameLen IN
        /\ SubSeq(b, k + 1, k + 2) = START_MARKER
        /\ \A j \in 1..k : ~(b[j] = START_MARKER[1] /\ b[j + 1] = START_MARKER[2])

\* C7: resynchronization.  While the input of the decode loop is k > 0 noise
\* bytes and then a frame, the next step skips one byte and calls nothing;
\* when it is that frame alone, the next step passes the frame to the
\* callback and leaves nothing; and with nothing left the loop ends without
\* another call.  So k skips are followed by one frame, and one call.
C7_Resync ==
    [][ /\ (pc = "parse" /\ GarbageThenFrame(input) /\ Len(input) > FrameLen)
            => /\ arm' = "skip"
               /\ pc' = "parse"
               /\ input' = Tail(input)
               /\ delivered' = delivered
        /\ (pc = "parse" /\ GarbageThenFrame(input) /\ Len(input) = FrameLen)
            => /\ arm' = "frame"
               /\ pc' = "parse"
               /\ input' = <<>>
               /\ delivered' = Append(delivered, FrameAt(input))
        /\ (pc = "parse" /\ input = <<>>)
            => /\ pc' = "read"
               /\ delivered' = delivered
      ]_vars

\* three noise bytes, the first of them 0x42, and then a frame have been
\* decoded: the frame is the only one passed to the callback
C7_Witness ==
    /\ stream \in NoisyStreams
    /\ Len(stream) = FrameLen + 3
    /\ stream[1] = START_MARKER[1]
    /\ pc = "parse"
    /\ arm = "frame"
    /\ input = <<>>
    /\ delivered = <<FrameAt(Drop(stream, 3))>>

\* the value of a call that returned, against a whole number
AqiLeq(r, n) == r.num <= n * r.den
AqiGeq(r, n) == r.num >= n * r.den
AqiIs(r, n) == r.num = n * r.den

Returned == aqi_ret.kind = "value"
Ended == aqi_ret # NotCalled

\* C8: for every concentration above 0 the bucket index is clamped into
\* 0..6, so the lookup does not fail and the call returns a value in 0..500.
C8_LookupNeverFails ==
    (Ended /\ aqi_call.data > 0)
        => (Returned /\ AqiGeq(aqi_ret, 0) /\ AqiLeq(aqi_ret, 500))

\* C9: for every concentration of 0 or less, calculate_aqi returns exactly
\* 0, for either table; and no call returns a negative value.
C9_ZeroForNonPositive ==
    /\ (Ended /\ aqi_call.data <= 0) => (Returned /\ AqiIs(aqi_ret, 0))
    /\ Returned => AqiGeq(aqi_ret, 0)

\* the call of test_aqi_data_boundary_low has returned 0
C9_Witness ==
    /\ Ended
    /\ aqi_call.breakpoints = AQI_PM2_5_BREAKPOINTS
    /\ aqi_call.data = -100
    /\ AqiIs(aqi_ret, 0)

\* the high bound of the last range of a table, in tenths
LastHigh(breakpoints) == breakpoints[Len(breakpoints)][2]

\* C10: saturation.  No call returns more than 500, and a call whose
\* concentration, rounded to one decimal, is at or above the high bound of
\* the last range of its table (500.4, 604.0) returns exactly 500.
C10_Saturation ==
    /\ Returned => AqiLeq(aqi_ret, 500)
    /\ (Ended /\ aqi_call.data > 0
          /\ round_tenths(aqi_call.data) >= LastHigh(aqi_call.breakpoints))
         => (Returned /\ AqiIs(aqi_ret, 500))

\* a call with a concentration above the last range of the PM10 table, where
\* the interpolation gives more than 500, has returned 500
C10_Witness ==
    /\ Returned
    /\ aqi_call.breakpoints = AQI_PM10_0_BREAKPOINTS
    /\ round_tenths(aqi_call.data) > LastHigh(AQI_PM10_0_BREAKPOINTS)
    /\ AqiIs(aqi_ret, 500)

\* the concentration x > 0 (in hundredths) rounded half away from zero to one
\* decimal, in tenths: the t with t - 0.05 <= x < t + 0.05
Tenth(x) ==
    CHOOSE t \in {x \div 10, x \div 10 + 1} : 10 * t - 5 <= x /\ x <= 10 * t + 4

\* two calls ended the same way: both panicked, or both returned one value
SameOutcome(a, b) ==
    /\ a.kind = b.kind
    /\ a.kind = "value" => a.num * b.den = b.num * a.den

\* C11: two concentrations above 0 that round to the same value at one
\* decimal place give the same result: the call that ended agrees with the
\* calls for the least, the middle and the greatest concentration that round
\* as its own does (12.05 with 12.1, 12.04 with 12.0).
C11_SameTenthSameAqi ==
    (Ended /\ aqi_call.data > 0)
        => LET t == Tenth(aqi_call.data) IN
           \A y \in {10 * t - 5, 10 * t, 10 * t + 4} :
               y > 0 => SameOutcome(aqi_ret,
                                    calculate_aqi(aqi_call.breakpoints, y))

\* the call of test_aqi_breakpoint_boundary_data with 12.05 has returned what
\* the call with 12.1 returns
C11_Witness ==
    /\ Returned
    /\ aqi_call.breakpoints = AQI_PM2_5_BREAKPOINTS
    /\ aqi_call.data = 1205
    /\ aqi_ret = calculate_aqi(AQI_PM2_5_BREAKPOINTS, 1210)

\* C16: bucket matching.  When the rounded concentration lies in range k of
\* the table, low bound and high bound included, the value returned lies in
\* the AQI range k.
C16_BucketMatching ==
    (Returned /\ aqi_call.data > 0)
        => LET v == Tenth(aqi_call.data) IN
           \A k \in 1..Len(aqi_call.breakpoints) :
               (aqi_call.breakpoints[k][1] <= v /\ v <= aqi_call.breakpoints[k][2])
                   => /\ AqiGeq(aqi_ret, AQI_RANGES[k][1])
                      /\ AqiLeq(aqi_ret, AQI_RANGES[k][2])

\* C18: calculate_aqi does not decrease when the concentration grows: the
\* value returned is at most the value returned for the next concentration
\* (0.01 more), for either table.
C18_Monotone ==
    (Returned /\ aqi_call.data < MaxData)
        => LET next == calculate_aqi(aqi_call.breakpoints, aqi_call.data + 1) IN
           next.kind = "value" => aqi_ret.num * next.den <= next.num * aqi_ret.den

\* C13: parse never fails for good: for every buffer its result is a frame, a
\* skip or a request for more bytes, so the decode loop never takes its arm
\* for other errors.
C13_NoMalformedInput ==
    LET r == parse(input) IN
    /\ r.kind \in {"Ok", "Incomplete"}
    /\ r.kind = "Ok" => (r.val = None \/ Len(r.val) = 1)
    /\ arm # "error"

\* noise and a frame have been read to the end, and the decode loop has ended
\* in its arm for Incomplete
C13_Witness ==
    /\ stream \in NoisyStreams
    /\ Len(stream) > FrameLen
    /\ Quiescent
    /\ arm = "incomplete"
    /\ delivered # <<>>

\* C14: a timeout of the port calls nothing, is not logged as an error of
\* the decoder, and leaves read_active at its read; any other error of the
\* port makes read_active return, and once it has returned it stays so and
\* the callback is not called any more.
C14_TimeoutAndError ==
    [][ /\ (pc = "read" /\ arm' = "timeout")
            => /\ pc' = "read"
               /\ delivered' = delivered
               /\ pos' = pos
        /\ (pc = "read" /\ arm' = "ioerror")
            => /\ pc' = "returned"
               /\ delivered' = delivered
        /\ pc = "returned"
            => /\ pc' = "returned"
               /\ delivered' = delivered
        /\ (pc = "read" /\ pc' = "read") => arm' = "timeout"
      ]_vars

\* the port has timed out between two frames: one frame has been passed on
\* and read_active is at its read, with more of the stream to come
C14_Witness ==
    /\ arm = "timeout"
    /\ pc = "read"
    /\ Len(delivered) = 1
    /\ pos < Len(stream)

C17_NoPhantomFrame ==
    stream \in FrameStreams
        => \A i \in 1..Len(delivered) :
               \E n \in 1..(Len(stream) \div FrameLen) :
                   delivered[i] = FramesOf(stream)[n]

\* C19: the inner loop of read_active ends for every read.  A read hands it
\* at most 64 bytes, every iteration that does not end it shortens the
\* input, on the empty input it ends; so after a read of p bytes it ends
\* within p + 1 calls of parse, and read_active comes back to its read.
C19_DecodeLoopEnds ==
    /\ [][ /\ (pc = "read" /\ pc' = "parse") => Len(input') <= BufLen
           /\ (pc = "parse" /\ pc' = "parse") => Len(input') < Len(input)
           /\ (pc = "parse" /\ input = <<>>) => pc' = "read"
         ]_vars
    /\ (pc = "parse") ~> (pc = "read")

\* a read of 64 bytes, two frames, has been decoded and the loop has ended
C19_Witness ==
    /\ Quiescent
    /\ pos = BufLen
    /\ arm = "incomplete"
    /\ Len(delivered) = 2

\* the frames of stdout, without the "Waiting" line
Echoed(out) == SelectSeq(out, LAMBDA l : l.line = "frame")

\* C12: the warm-up gate of default_callback.  With S = settle_time
\* measured on the system clock from the first frame passed to the closure:
\* a frame passed while less than S has elapsed leaves every gauge as it was
\* and is not echoed; a frame passed once S or more has elapsed (any frame
\* when S = 0) sets the gauges from that frame; start_time, once set, stays.
C12_WarmUpGate ==
    [][ cb_data' # cb_data =>
          LET data   == cb_data'[Len(cb_data')]
              since  == clock - start_time'[1]
          IN  /\ start_time' # None
              /\ start_time # None => start_time' = start_time
              /\ (settle_time > 0 /\ since < settle_time) =>
                     /\ gauges' = gauges
                     /\ Echoed(stdout') = Echoed(stdout)
              /\ (settle_time = 0 \/ since >= settle_time) =>
                     gauges' = update_metrics(data)
      ]_vars


====
